---- MODULE Spec2Model ----
(***************************************************************************)
(* Model of perg (crates/perg: regex -> NFA compiler and simulator) and    *)
(* bolg (crates/bolg: glob matcher).                                       *)
(*                                                                         *)
(* A char is a one-character string; a &str / Vec<char> is a sequence of   *)
(* chars.  The scalar U+03B5 is written "EPS", the scalar U+017F (LATIN     *)
(* SMALL LETTER LONG S) "LONG_S".  An NFA is an arena: a                   *)
(* state is identified by its index in nfa.states (the Rc pointer of the   *)
(* source), and a transition's `to` is such an index.  State names are     *)
(* display-only in the source and are not modelled.                        *)
(***************************************************************************)
EXTENDS Integers, Sequences, FiniteSets, TLC

VARIABLES arg_pattern, input, nfa_options, compiled, pc, cur_line, pos,
          all_matches, last_scan, found,
          tree, ref_found,
          gpattern, gpath, gpc, gresult,
          root, entries_to_process, tested, yielded,
          alt_pattern, alt_input, alt_compiled, alt_matches,
          with_concat, with_concat_twice,
          postfix,
          glob_results, main_pc,
          files, threads, handles, completion, results, reported

vars == <<arg_pattern, input, nfa_options, compiled, pc, cur_line, pos,
          all_matches, last_scan, found, tree, ref_found,
          gpattern, gpath, gpc, gresult,
          root, entries_to_process, tested, yielded,
          alt_pattern, alt_input, alt_compiled, alt_matches,
          with_concat, with_concat_twice,
          postfix,
          glob_results, main_pc,
          files, threads, handles, completion, results, reported>>

regexVars == <<arg_pattern, input, nfa_options, compiled, pc, cur_line, pos,
               all_matches, last_scan, found, tree, ref_found>>

globVars == <<gpattern, gpath, gpc, gresult>>

walkVars == <<root, entries_to_process, tested, yielded>>

auxVars == <<alt_pattern, alt_input, alt_compiled, alt_matches,
             with_concat, with_concat_twice>>

mainVars == <<glob_results, main_pc, files, threads, handles, completion,
              results, reported>>

-----------------------------------------------------------------------------
(* Bounds of the model *)

MaxPatLen == 3
MaxTextLen == 4
MaxNodes == 5
MaxGlobLen == 3
MaxDirs == 1

SeqsUpTo(S, n) == UNION {[1..k -> S] : k \in 0..n}

-----------------------------------------------------------------------------
(* nfa.rs: reserved scalars *)

EPLISON == "EPS"
CONCAT == "?"
UNION_OP == "+"
KLEEN == "*"
ANY_DIGIT == "#"
ANY_ALPHANUMERIC == "="
ANY_OTHER_CHAR == "&"
SLASH == "\\"
CHAR_SET_START == "["
CHAR_SET_END == "]"
GROUP_START == "("
GROUP_END == ")"

CANNOT_CONCAT_PREV_CHAR == {GROUP_START, UNION_OP, CHAR_SET_START, SLASH}

CANNOT_CONCAT_CURRENT_CHAR == {CONCAT, UNION_OP, KLEEN, GROUP_END, CHAR_SET_END}

(* char::is_numeric / char::is_alphanumeric / to_uppercase / to_lowercase,
   restricted to the ASCII scalars the model uses *)
LowerLetters == <<"a","b","c","d","e","f","g","h","i","j","k","l","m",
                  "n","o","p","q","r","s","t","u","v","w","x","y","z">>

UpperLetters == <<"A","B","C","D","E","F","G","H","I","J","K","L","M",
                  "N","O","P","Q","R","S","T","U","V","W","X","Y","Z">>

Digits == {"0","1","2","3","4","5","6","7","8","9"}

(* U+017F, a lowercase letter outside ASCII: char::to_uppercase gives 'S',
   char::to_lowercase gives the scalar itself *)
LONG_S == "LONG_S"

Range(s) == {s[i] : i \in 1..Len(s)}

is_numeric(c) == c \in Digits

is_alphanumeric(c) ==
    c \in Digits \cup Range(LowerLetters) \cup Range(UpperLetters) \cup {LONG_S}

naive_uppercase(c) ==
    IF c \in Range(LowerLetters)
    THEN UpperLetters[CHOOSE i \in 1..Len(LowerLetters) : LowerLetters[i] = c]
    ELSE IF c = LONG_S THEN "S"
    ELSE c

naive_lowercase(c) ==
    IF c \in Range(UpperLetters)
    THEN LowerLetters[CHOOSE i \in 1..Len(UpperLetters) : UpperLetters[i] = c]
    ELSE c

-----------------------------------------------------------------------------
(* nfa.rs: State, Transition, NFA and the Thompson combinators *)

Transition_new(on, to) == [on |-> on, to |-> to]

State_new(transitions, kind) == [transitions |-> transitions, kind |-> kind]

NFA_new(states, initial_state, final_states) ==
    [states |-> states, initial_state |-> initial_state, final_states |-> final_states]

(* a.states.append(&mut b.states): b's states keep their identity, which in
   the arena is their old index plus the length of a.states *)
shift_states(states, off) ==
    [i \in 1..Len(states) |->
        [transitions |-> [j \in 1..Len(states[i].transitions) |->
                             Transition_new(states[i].transitions[j].on,
                                            states[i].transitions[j].to + off)],
         kind |-> states[i].kind]]

shift_refs(refs, off) == [i \in 1..Len(refs) |-> refs[i] + off]

(* for final_state in finals { add_transition(EPLISON, t) for each t of
   targets, in order; kind = Normal } *)
RECURSIVE demote_finals(_, _, _, _)
demote_finals(states, finals, j, targets) ==
    IF j > Len(finals) THEN states
    ELSE LET f == finals[j]
             added == [x \in 1..Len(targets) |-> Transition_new(EPLISON, targets[x])]
             st == [transitions |-> states[f].transitions \o added, kind |-> "Normal"]
         IN demote_finals([states EXCEPT ![f] = st], finals, j + 1, targets)

(* the edges a character set adds for each listed character: one edge per
   character, or with ignore_case the two case forms in the given order *)
set_edges(chars, ignore_case, first_upper, to) ==
    IF ignore_case
    THEN [j \in 1..(2 * Len(chars)) |->
            LET c == chars[(j + 1) \div 2]
                isFirst == (j % 2 = 1)
            IN Transition_new(IF isFirst = first_upper THEN naive_uppercase(c)
                                                       ELSE naive_lowercase(c), to)]
    ELSE [j \in 1..Len(chars) |-> Transition_new(chars[j], to)]

negative_set_of_chars(chars, opts) ==
    NFA_new(<<State_new(set_edges(chars, opts.ignore_case, FALSE, 3)
                          \o <<Transition_new(ANY_OTHER_CHAR, 2)>>, "Initial"),
              State_new(<<>>, "Final"),
              State_new(<<>>, "Failed")>>, 1, <<2>>)

set_of_chars(chars, opts) ==
    NFA_new(<<State_new(set_edges(chars, opts.ignore_case, TRUE, 2)
                          \o <<Transition_new(ANY_OTHER_CHAR, 3)>>, "Initial"),
              State_new(<<Transition_new(ANY_OTHER_CHAR, 3)>>, "Final"),
              State_new(<<>>, "Failed")>>, 1, <<2>>)

symbol(c, opts) ==
    NFA_new(<<State_new(set_edges(<<c>>, opts.ignore_case, TRUE, 2)
                          \o <<Transition_new(ANY_OTHER_CHAR, 3)>>, "Initial"),
              State_new(<<Transition_new(ANY_OTHER_CHAR, 3)>>, "Final"),
              State_new(<<>>, "Failed")>>, 1, <<2>>)

union(a, b) ==
    LET la == Len(a.states)
        lb == Len(b.states)
        new_initial == la + lb + 1
        new_final == la + lb + 2
        merged == a.states \o shift_states(b.states, la)
                    \o <<State_new(<<Transition_new(EPLISON, a.initial_state),
                                     Transition_new(EPLISON, b.initial_state + la)>>,
                                   "Initial"),
                         State_new(<<>>, "Final")>>
        afterA == demote_finals(merged, a.final_states, 1, <<new_final>>)
        afterB == demote_finals(afterA, shift_refs(b.final_states, la), 1, <<new_final>>)
    IN NFA_new(afterB, new_initial, <<new_final>>)

kleen(a) ==
    LET la == Len(a.states)
        new_final == la + 1
        new_initial == la + 2
        withFinal == a.states \o <<State_new(<<>>, "Final")>>
        demoted == demote_finals(withFinal, a.final_states, 1,
                                 <<new_final, a.initial_state>>)
        initEdges == <<Transition_new(EPLISON, a.initial_state)>>
                       \o [j \in 1..Len(a.final_states) |->
                             Transition_new(EPLISON, a.final_states[j])]
    IN NFA_new(demoted \o <<State_new(initEdges, "Initial")>>, new_initial, <<new_final>>)

(* variant of concat in which a's final states keep their kind *)
concat_keep_kind(a, b) ==
    LET la == Len(a.states)
        merged == a.states \o shift_states(b.states, la)
        linked == [i \in 1..Len(merged) |->
                     IF i \in Range(a.final_states)
                     THEN [transitions |-> Append(merged[i].transitions,
                                                  Transition_new(EPLISON, b.initial_state + la)),
                           kind |-> merged[i].kind]
                     ELSE merged[i]]
    IN NFA_new(linked, a.initial_state, shift_refs(b.final_states, la))

concat(a, b) ==
    LET la == Len(a.states)
        merged == a.states \o shift_states(b.states, la)
    IN NFA_new(demote_finals(merged, a.final_states, 1, <<b.initial_state + la>>),
               a.initial_state, shift_refs(b.final_states, la))

digits == concat(symbol(ANY_DIGIT, [ignore_case |-> FALSE]),
                 kleen(symbol(ANY_DIGIT, [ignore_case |-> FALSE])))

alphanumeric(opts) == symbol(ANY_ALPHANUMERIC, opts)

digit == symbol(ANY_DIGIT, [ignore_case |-> FALSE])

-----------------------------------------------------------------------------
(* re.rs: insert_concat_symbol, shunting_yard, regex_to_nfa.
   An Option<char> is <<>> (None) or <<c>> (Some(c)).  A panic (expect /
   unwrap on None) is the outcome ok = FALSE. *)

RECURSIVE insert_concat_loop(_, _, _, _, _)
insert_concat_loop(regex, idx, prev_symbol, is_in_char_set, output) ==
    IF idx > Len(regex) THEN output
    ELSE LET c == regex[idx]
             in_set == IF c = CHAR_SET_END THEN FALSE
                       ELSE IF c = CHAR_SET_START THEN TRUE
                       ELSE is_in_char_set
             can_concat == /\ ~in_set
                           /\ c \notin CANNOT_CONCAT_CURRENT_CHAR
                           /\ prev_symbol # <<>>
                           /\ prev_symbol[1] \notin CANNOT_CONCAT_PREV_CHAR
             out == IF can_concat THEN output \o <<CONCAT, c>> ELSE Append(output, c)
         IN insert_concat_loop(regex, idx + 1, <<c>>, in_set, out)

insert_concat_symbol(regex) == insert_concat_loop(regex, 1, <<>>, FALSE, <<>>)

(* a variant of precedence in which UNION binds tighter than CONCAT *)
precedence_union_tighter(c) ==
    IF c = KLEEN THEN 4
    ELSE IF c = CONCAT THEN 2
    ELSE IF c = UNION_OP THEN 3
    ELSE 0

precedence(c) ==
    IF c = KLEEN THEN 4
    ELSE IF c = CONCAT THEN 3
    ELSE IF c = UNION_OP THEN 2
    ELSE 0

(* the loop of re.rs:63-78: pop operators of precedence >= that of c to the
   output; operators' back is the end of the sequence *)
RECURSIVE pop_higher(_, _, _)
pop_higher(operators, output, c) ==
    IF operators = <<>> THEN [operators |-> operators, output |-> output]
    ELSE LET top_operator == operators[Len(operators)]
         IN IF precedence(top_operator) >= precedence(c)
            THEN pop_higher(SubSeq(operators, 1, Len(operators) - 1),
                            Append(output, top_operator), c)
            ELSE [operators |-> operators, output |-> output]

(* a variant of pop_group that stops without failing when the stack runs
   empty *)
pop_group_lenient(operators, output) ==
    LET opens == {k \in 1..Len(operators) : operators[k] = GROUP_START}
        top == IF opens = {} THEN 0 ELSE CHOOSE k \in opens : \A x \in opens : x <= k
        n == Len(operators) - top
    IN [ok |-> TRUE,
        operators |-> SubSeq(operators, 1, top - 1),
        output |-> output \o [i \in 1..n |-> operators[Len(operators) + 1 - i]]]

(* the loop of re.rs:91-101: pop to the output until GROUP_START is popped;
   ok = FALSE when the stack runs empty (expect panics) *)
RECURSIVE pop_group(_, _)
pop_group(operators, output) ==
    IF operators = <<>> THEN [ok |-> FALSE, operators |-> operators, output |-> output]
    ELSE LET operator == operators[Len(operators)]
             rest == SubSeq(operators, 1, Len(operators) - 1)
         IN IF operator = GROUP_START
            THEN [ok |-> TRUE, operators |-> rest, output |-> output]
            ELSE pop_group(rest, Append(output, operator))

Reverse(s) == [i \in 1..Len(s) |-> s[Len(s) + 1 - i]]

RECURSIVE shunting_yard_loop(_, _, _, _, _)
shunting_yard_loop(regex, idx, operators, output, is_in_char_set) ==
    IF idx > Len(regex)
    THEN [ok |-> TRUE, output |-> output \o Reverse(operators)]
    ELSE LET c == regex[idx] IN
         IF c = CHAR_SET_END
         THEN shunting_yard_loop(regex, idx + 1, operators, Append(output, c), FALSE)
         ELSE IF is_in_char_set
         THEN shunting_yard_loop(regex, idx + 1, operators, Append(output, c), is_in_char_set)
         ELSE IF c \in {KLEEN, UNION_OP, CONCAT}
         THEN LET r == pop_higher(operators, output, c)
              IN shunting_yard_loop(regex, idx + 1, Append(r.operators, c), r.output,
                                    is_in_char_set)
         ELSE IF c = CHAR_SET_START
         THEN shunting_yard_loop(regex, idx + 1, operators, Append(output, c), TRUE)
         ELSE IF c = GROUP_START
         THEN shunting_yard_loop(regex, idx + 1, Append(operators, c), output, is_in_char_set)
         ELSE IF c = GROUP_END
         THEN LET r == pop_group(operators, output)
              IN IF r.ok
                 THEN shunting_yard_loop(regex, idx + 1, r.operators, r.output, is_in_char_set)
                 ELSE [ok |-> FALSE, output |-> <<>>]
         ELSE shunting_yard_loop(regex, idx + 1, operators, Append(output, c), is_in_char_set)

shunting_yard(raw_regex) ==
    shunting_yard_loop(insert_concat_symbol(raw_regex), 1, <<>>, <<>>, FALSE)

EmptyNFA == NFA_new(<<>>, 0, <<>>)

(* stack_len is a ghost: the length of nfa_queque when the postfix stream
   has been consumed, before the final pop_back *)
Panicked == [ok |-> FALSE, nfa |-> EmptyNFA, stack_len |-> 0]

Front(s) == SubSeq(s, 1, Len(s) - 1)

Last(s) == s[Len(s)]

RECURSIVE regex_to_nfa_loop(_, _, _, _, _, _, _)
regex_to_nfa_loop(normalized, idx, nfa_queque, is_in_char_group, negation, character_set, opts) ==
    IF idx > Len(normalized)
    THEN IF nfa_queque = <<>> THEN Panicked
         ELSE [ok |-> TRUE, nfa |-> Last(nfa_queque), stack_len |-> Len(nfa_queque)]
    ELSE LET c == normalized[idx] IN
         IF c = "^" /\ is_in_char_group
         THEN regex_to_nfa_loop(normalized, idx + 1, nfa_queque, is_in_char_group, TRUE,
                                character_set, opts)
         ELSE IF c = "^"
         THEN regex_to_nfa_loop(normalized, idx + 1, nfa_queque, is_in_char_group, negation,
                                character_set, opts)
         ELSE IF c = CHAR_SET_END
         THEN LET nfa == IF ~negation THEN set_of_chars(character_set, opts)
                         ELSE negative_set_of_chars(character_set, opts)
              IN regex_to_nfa_loop(normalized, idx + 1, Append(nfa_queque, nfa), FALSE,
                                   negation, <<>>, opts)
         ELSE IF is_in_char_group
         THEN regex_to_nfa_loop(normalized, idx + 1, nfa_queque, is_in_char_group, negation,
                                Append(character_set, c), opts)
         ELSE IF c = CHAR_SET_START
         THEN regex_to_nfa_loop(normalized, idx + 1, nfa_queque, TRUE, negation,
                                character_set, opts)
         ELSE IF c = SLASH
         THEN IF idx + 1 > Len(normalized) THEN Panicked
              ELSE IF normalized[idx + 1] = "d"
              THEN regex_to_nfa_loop(normalized, idx + 2, Append(nfa_queque, digits),
                                     is_in_char_group, negation, character_set, opts)
              ELSE IF normalized[idx + 1] = "w"
              THEN regex_to_nfa_loop(normalized, idx + 2,
                                     Append(nfa_queque, alphanumeric(opts)),
                                     is_in_char_group, negation, character_set, opts)
              ELSE regex_to_nfa_loop(normalized, idx + 1, nfa_queque, is_in_char_group,
                                     negation, character_set, opts)
         ELSE IF c = KLEEN
         THEN IF Len(nfa_queque) < 1 THEN Panicked
              ELSE regex_to_nfa_loop(normalized, idx + 1,
                                     Append(Front(nfa_queque), kleen(Last(nfa_queque))),
                                     is_in_char_group, negation, character_set, opts)
         ELSE IF c = CONCAT
         THEN IF Len(nfa_queque) < 2 THEN Panicked
              ELSE regex_to_nfa_loop(normalized, idx + 1,
                                     Append(Front(Front(nfa_queque)),
                                            concat(Last(Front(nfa_queque)), Last(nfa_queque))),
                                     is_in_char_group, negation, character_set, opts)
         ELSE IF c = UNION_OP
         THEN IF Len(nfa_queque) < 2 THEN Panicked
              ELSE regex_to_nfa_loop(normalized, idx + 1,
                                     Append(Front(Front(nfa_queque)),
                                            union(Last(Front(nfa_queque)), Last(nfa_queque))),
                                     is_in_char_group, negation, character_set, opts)
         ELSE regex_to_nfa_loop(normalized, idx + 1,
                                Append(nfa_queque, symbol(c, opts)),
                                is_in_char_group, negation, character_set, opts)

regex_to_nfa(regex, opts) ==
    LET normalized == shunting_yard(regex)
    IN IF ~normalized.ok THEN Panicked
       ELSE regex_to_nfa_loop(normalized.output, 1, <<>>, FALSE, FALSE, <<>>, opts)

-----------------------------------------------------------------------------
(* nfa.rs: the simulator.  A frontier (states_for_curr_symbol /
   states_for_next_symbol) is a sequence of state indices, duplicates
   included.  `paths` is a ghost sequence, parallel to the current frontier:
   the states on the chain of EPLISON edges that led to the entry.  When an
   entry has an EPLISON edge to a state of its own chain, the states of that
   cycle are appended again and again and the `while i < len` loop never
   reaches the end of the vector: that outcome is diverged = TRUE. *)

len_utf8(c) == IF c \in {EPLISON, LONG_S} THEN 2 ELSE 1

eps_targets(st) ==
    LET s == SelectSeq(st.transitions, LAMBDA t : t.on = EPLISON)
    IN [j \in 1..Len(s) |-> s[j].to]

edge_matches(on, c) ==
    \/ on = c
    \/ (on = ANY_DIGIT /\ is_numeric(c))
    \/ (on = ANY_ALPHANUMERIC /\ is_alphanumeric(c))

(* variant of next_targets: the ANY_OTHER_CHAR destination is pushed whether
   or not another edge of the state matched *)
next_targets_any_always(st, c) ==
    LET m == SelectSeq(st.transitions, LAMBDA t : edge_matches(t.on, c))
        any == SelectSeq(st.transitions, LAMBDA t : t.on = ANY_OTHER_CHAR)
    IN [j \in 1..Len(m) |-> m[j].to]
         \o (IF any # <<>> THEN <<any[Len(any)].to>> ELSE <<>>)

(* what one state pushes to states_for_next_symbol on input c: the
   destinations of its matching edges in order, or, when none matched, the
   destination of its last ANY_OTHER_CHAR edge *)
next_targets(st, c) ==
    LET m == SelectSeq(st.transitions, LAMBDA t : edge_matches(t.on, c))
        any == SelectSeq(st.transitions, LAMBDA t : t.on = ANY_OTHER_CHAR)
    IN IF m = <<>> /\ any # <<>> THEN <<any[Len(any)].to>>
       ELSE [j \in 1..Len(m) |-> m[j].to]

on_own_path(eps, path) == \E j \in 1..Len(eps) : eps[j] \in path

RECURSIVE process_frontier(_, _, _, _, _, _, _, _)
process_frontier(nfa, c, curr, paths, i, next, final_index, at) ==
    IF i > Len(curr)
    THEN [curr |-> curr, next |-> next, final_index |-> final_index, diverged |-> FALSE]
    ELSE LET st == nfa.states[curr[i]]
             eps == eps_targets(st)
             fi == IF st.kind = "Final" THEN <<at>> ELSE final_index
         IN IF on_own_path(eps, paths[i])
            THEN [curr |-> curr, next |-> next, final_index |-> fi, diverged |-> TRUE]
            ELSE process_frontier(nfa, c, curr \o eps,
                                  paths \o [j \in 1..Len(eps) |-> paths[i] \cup {eps[j]}],
                                  i + 1, next \o next_targets(st, c), fi, at)

(* the closing loop after the text is consumed (nfa.rs:343-353 and 422-432) *)
RECURSIVE close_frontier(_, _, _, _)
close_frontier(nfa, curr, paths, i) ==
    IF i > Len(curr) THEN [curr |-> curr, diverged |-> FALSE]
    ELSE LET eps == eps_targets(nfa.states[curr[i]])
         IN IF on_own_path(eps, paths[i])
            THEN [curr |-> curr, diverged |-> TRUE]
            ELSE close_frontier(nfa, curr \o eps,
                                paths \o [j \in 1..Len(eps) |-> paths[i] \cup {eps[j]}],
                                i + 1)

Origins(s) == [j \in 1..Len(s) |-> {s[j]}]

Match(from, to, line) == [from |-> from, to |-> to, line |-> line]

(* `observed` is a ghost: the offsets start_index + k at which the expanded
   current frontier held a state of kind Final *)
RECURSIVE find_matches_inner_loop(_, _, _, _, _, _, _, _, _, _)
find_matches_inner_loop(nfa, text, idx, k, start_index, line_number, curr, final_index, matches, observed) ==
    IF idx > Len(text)
    THEN [matches |-> matches, observed |-> observed,
          diverged |-> close_frontier(nfa, curr, Origins(curr), 1).diverged]
    ELSE LET r == process_frontier(nfa, text[idx], curr, Origins(curr), 1, <<>>,
                                   final_index, start_index + k)
             sawFinal == \E j \in 1..Len(r.curr) : nfa.states[r.curr[j]].kind = "Final"
             obs == IF sawFinal THEN Append(observed, start_index + k) ELSE observed
         IN IF r.diverged
            THEN [matches |-> matches, observed |-> obs, diverged |-> TRUE]
            ELSE IF r.final_index # <<>>
            THEN find_matches_inner_loop(nfa, text, idx + 1, k + len_utf8(text[idx]),
                                         start_index, line_number, r.next, <<>>,
                                         Append(matches, Match(start_index, r.final_index[1],
                                                               line_number)),
                                         obs)
            ELSE find_matches_inner_loop(nfa, text, idx + 1, k + len_utf8(text[idx]),
                                         start_index, line_number, r.next, r.final_index,
                                         matches, obs)

find_matches_inner(nfa, text, start_index, line_number) ==
    find_matches_inner_loop(nfa, text, 1, 0, start_index, line_number,
                            <<nfa.initial_state>>, <<>>, <<>>, <<>>)

RECURSIVE find_match_inner_loop(_, _, _, _, _, _, _)
find_match_inner_loop(nfa, text, idx, k, start_index, curr, final_index) ==
    IF idx > Len(text)
    THEN LET r == close_frontier(nfa, curr, Origins(curr), 1)
         IN [value |-> \E f \in 1..Len(nfa.final_states) : \E j \in 1..Len(r.curr) :
                           nfa.final_states[f] = r.curr[j],
             diverged |-> r.diverged]
    ELSE LET r == process_frontier(nfa, text[idx], curr, Origins(curr), 1, <<>>,
                                   final_index, start_index + k)
         IN IF r.diverged THEN [value |-> FALSE, diverged |-> TRUE]
            ELSE IF r.final_index # <<>> THEN [value |-> TRUE, diverged |-> FALSE]
            ELSE find_match_inner_loop(nfa, text, idx + 1, k + 1, start_index, r.next,
                                       r.final_index)

find_match_inner(nfa, text, start_index) ==
    find_match_inner_loop(nfa, text, 1, 0, start_index, <<nfa.initial_state>>, <<>>)

Suffix(s, i) == SubSeq(s, i, Len(s))

RECURSIVE byte_offset(_, _)
byte_offset(s, i) == IF i <= 1 THEN 0 ELSE byte_offset(s, i - 1) + len_utf8(s[i - 1])

RECURSIVE find_match_from(_, _, _)
find_match_from(nfa, text, i) ==
    IF i > Len(text) THEN [value |-> FALSE, diverged |-> FALSE]
    ELSE LET r == find_match_inner(nfa, Suffix(text, i), byte_offset(text, i))
         IN IF r.diverged \/ r.value THEN r
            ELSE find_match_from(nfa, text, i + 1)

find_match(nfa, text) ==
    IF Len(text) = 0 THEN find_match_inner(nfa, text, 0)
    ELSE find_match_from(nfa, text, 1)

RECURSIVE split_loop(_, _, _, _)
split_loop(s, idx, cur, acc) ==
    IF idx > Len(s) THEN Append(acc, cur)
    ELSE IF s[idx] = "\n" THEN split_loop(s, idx + 1, <<>>, Append(acc, cur))
    ELSE split_loop(s, idx + 1, Append(cur, s[idx]), acc)

(* text.split('\n') *)
lines_of(s) == split_loop(s, 1, <<>>, <<>>)

(* a variant of append_matches that puts the matches of a scan in front *)
append_matches_front(all, matches) == matches \o all

(* all_matches.append(&mut matches) *)
append_matches(all, matches) == all \o matches

(* nfa.rs:258-263: the scans of one line, from every char index *)
RECURSIVE find_matches_line(_, _, _, _, _)
find_matches_line(nfa, line, line_number, at, all) ==
    IF at > Len(line) THEN [matches |-> all, diverged |-> FALSE]
    ELSE LET r == find_matches_inner(nfa, Suffix(line, at), byte_offset(line, at),
                                     line_number)
         IN IF r.diverged THEN [matches |-> all, diverged |-> TRUE]
            ELSE find_matches_line(nfa, line, line_number, at + 1,
                                   append_matches(all, r.matches))

RECURSIVE find_matches_lines(_, _, _, _)
find_matches_lines(nfa, lines, n, all) ==
    IF n > Len(lines) THEN [matches |-> all, diverged |-> FALSE]
    ELSE LET r == find_matches_line(nfa, lines[n], n - 1, 1, all)
         IN IF r.diverged THEN r
            ELSE find_matches_lines(nfa, lines, n + 1, r.matches)

(* nfa.rs:250-266: find_matches as one call *)
find_matches(nfa, text) ==
    IF Len(text) = 0 THEN [matches |-> <<>>, diverged |-> FALSE]
    ELSE find_matches_lines(nfa, lines_of(text), 1, <<>>)


-----------------------------------------------------------------------------
(* Reference construction: a syntax tree is <<"sym", <<c>>>>, <<"star", t>>,
   <<"cat", l, r>> or <<"alt", l, r>>; build applies the combinators of
   nfa.rs along the tree (as the tests of re.rs do by hand), unparse writes
   the tree in the surface syntax with the parentheses the precedences
   require. *)

Letters == {"a", "b"}

RECURSIVE TreesOfSize(_)
TreesOfSize(n) ==
    IF n = 1 THEN {<<"sym", <<c>>>> : c \in Letters}
    ELSE {<<"star", t>> : t \in TreesOfSize(n - 1)}
         \cup UNION {{<<op, l, r>> : op \in {"cat", "alt"},
                                     l \in TreesOfSize(k),
                                     r \in TreesOfSize(n - 1 - k)} : k \in 1..(n - 2)}

Trees == UNION {TreesOfSize(n) : n \in 1..MaxNodes}

Parens(s) == <<GROUP_START>> \o s \o <<GROUP_END>>

RECURSIVE unparse(_)
unparse(t) ==
    IF t[1] = "sym" THEN t[2]
    ELSE IF t[1] = "star"
    THEN (IF t[2][1] \in {"sym", "star"} THEN unparse(t[2]) ELSE Parens(unparse(t[2])))
           \o <<KLEEN>>
    ELSE IF t[1] = "cat"
    THEN (IF t[2][1] = "alt" THEN Parens(unparse(t[2])) ELSE unparse(t[2]))
           \o (IF t[3][1] = "alt" THEN Parens(unparse(t[3])) ELSE unparse(t[3]))
    ELSE unparse(t[2]) \o <<UNION_OP>> \o unparse(t[3])

RECURSIVE build(_, _)
build(t, opts) ==
    IF t[1] = "sym" THEN symbol(t[2][1], opts)
    ELSE IF t[1] = "star" THEN kleen(build(t[2], opts))
    ELSE IF t[1] = "cat" THEN concat(build(t[2], opts), build(t[3], opts))
    ELSE union(build(t[2], opts), build(t[3], opts))

-----------------------------------------------------------------------------
(* Inputs *)

PatAlphabet == {"a", "b", KLEEN, UNION_OP, GROUP_START, GROUP_END}

TextAlphabet == {"a", "b", "\n"}

Patterns == SeqsUpTo(PatAlphabet, MaxPatLen)

Texts == SeqsUpTo(TextAlphabet, MaxTextLen)

(* nfa.rs tests::find_match_complex_3 / README scenario: \d\dabc *)
DigitsPattern == <<SLASH, "d", SLASH, "d", "a", "b", "c">>

DigitsText == <<"0","1","a","b","c","\n",
                "a","b","c","0","1","a","b","c","\n",
                "1","2","3","1","3","\n",
                "a","b","c">>

Scenarios == {<<DigitsPattern, DigitsText>>,
              <<<<"a", KLEEN>>, <<"b", "b", "\n", "b", "b">>>>,
              <<<<"a", "b">>, <<"a", "b", "b", "\n", "a", "b", "a", "b", "a">>>>}

(* patterns with an unclosed class, and patterns that hold a reserved scalar
   of nfa.rs:15-21 *)
ReservedScenarios ==
    {<<<<"a", CHAR_SET_START, "b">>, <<"a">>>>,
     <<<<CHAR_SET_START, "a">>, <<"a">>>>,
     <<<<ANY_DIGIT>>, <<"1">>>>,
     <<<<ANY_DIGIT>>, <<"a", ANY_DIGIT>>>>,
     <<<<ANY_ALPHANUMERIC>>, <<"a">>>>,
     <<<<ANY_OTHER_CHAR>>, <<"a", ANY_OTHER_CHAR>>>>,
     <<<<ANY_OTHER_CHAR>>, <<"a">>>>,
     <<<<EPLISON>>, <<"a">>>>,
     <<<<CONCAT>>, <<"a">>>>}

(* re.rs tests regex_to_nfa_digits, regex_to_nfa_negative_character_set and
   further patterns of escapes and character classes *)
DigitEscape == <<SLASH, "d">>

WordEscape == <<SLASH, "w">>

NegativeSet == <<CHAR_SET_START, "^", "a", "b", CHAR_SET_END>>

NegativeThenPlain == <<CHAR_SET_START, "^", "a", CHAR_SET_END,
                       CHAR_SET_START, "b", CHAR_SET_END>>

NegativeOrPlain == <<CHAR_SET_START, "^", "a", CHAR_SET_END, UNION_OP,
                     CHAR_SET_START, "b", CHAR_SET_END>>

CaretInside == <<CHAR_SET_START, "a", "^", CHAR_SET_END>>

ClassTexts == {<<>>, <<"a">>, <<"b">>, <<"c">>, <<"^">>, <<"1">>, <<"1", "2">>,
               <<"a", "b">>, <<"b", "b">>, <<"c", "b">>, <<"c", "c">>, <<"a", "c">>}

ClassScenarios == {DigitEscape, WordEscape, NegativeSet, NegativeThenPlain,
                   NegativeOrPlain, CaretInside}
                     \X ClassTexts

RegexInputs == (Patterns \X Texts) \cup Scenarios \cup ReservedScenarios
                 \cup ClassScenarios

NoScan == [matches |-> <<>>, observed |-> <<>>, diverged |-> FALSE,
           start |-> 0, line |-> 0, called |-> FALSE]

NoResult == [value |-> FALSE, diverged |-> FALSE]

GlobOff ==
    /\ gpattern = <<>>
    /\ gpath = <<>>
    /\ gpc = "off"
    /\ gresult = "none"

WalkOff ==
    /\ root = <<>>
    /\ entries_to_process = <<>>
    /\ tested = <<>>
    /\ yielded = <<>>

NoPostfix == [ok |-> FALSE, output |-> <<>>]

MainOff ==
    /\ glob_results = <<>>
    /\ main_pc = "off"
    /\ files = <<>>
    /\ threads = 0
    /\ handles = <<>>
    /\ completion = <<>>
    /\ results = <<>>
    /\ reported = <<>>

AuxOff ==
    /\ alt_pattern = <<>>
    /\ alt_input = <<>>
    /\ alt_compiled = Panicked
    /\ alt_matches = <<>>
    /\ with_concat = <<>>
    /\ with_concat_twice = <<>>

Init ==
    /\ \E in \in RegexInputs : arg_pattern = in[1] /\ input = in[2]
    /\ nfa_options = [ignore_case |-> FALSE]
    /\ compiled = Panicked
    /\ pc = "init"
    /\ cur_line = 0
    /\ pos = 1
    /\ all_matches = <<>>
    /\ last_scan = NoScan
    /\ found = NoResult
    /\ tree = <<>>
    /\ ref_found = NoResult
    /\ GlobOff
    /\ postfix = NoPostfix
    /\ MainOff
    /\ WalkOff
    /\ AuxOff

(* main.rs:56 / re.rs:116-194: regex_to_nfa(&args.pattern, &options) *)
Compile ==
    /\ pc = "init"
    /\ compiled' = regex_to_nfa(arg_pattern, nfa_options)
    /\ pc' = IF compiled'.ok THEN "ready" ELSE "panic"
    /\ UNCHANGED <<arg_pattern, input, nfa_options, cur_line, pos, all_matches,
                   last_scan, found, tree, ref_found>>
    /\ UNCHANGED globVars
    /\ UNCHANGED postfix
    /\ UNCHANGED mainVars
    /\ UNCHANGED walkVars
    /\ UNCHANGED auxVars

(* nfa.rs:250-256: entry of find_matches *)
FindMatchesCall ==
    /\ pc = "ready"
    /\ pc' = IF Len(input) = 0 THEN "done" ELSE "scan"
    /\ cur_line' = 0
    /\ pos' = 1
    /\ all_matches' = <<>>
    /\ UNCHANGED <<arg_pattern, input, nfa_options, compiled, last_scan, found,
                   tree, ref_found>>
    /\ UNCHANGED globVars
    /\ UNCHANGED postfix
    /\ UNCHANGED mainVars
    /\ UNCHANGED walkVars
    /\ UNCHANGED auxVars

(* nfa.rs:258-263: one iteration of `for (k, _) in line.char_indices()` *)
ScanFrom ==
    /\ pc = "scan"
    /\ pos <= Len(lines_of(input)[cur_line + 1])
    /\ LET line == lines_of(input)[cur_line + 1]
           r == find_matches_inner(compiled.nfa, Suffix(line, pos),
                                   byte_offset(line, pos), cur_line)
       IN /\ last_scan' = [matches |-> r.matches, observed |-> r.observed,
                           diverged |-> r.diverged, start |-> byte_offset(line, pos),
                           line |-> cur_line, called |-> TRUE]
          /\ IF r.diverged
             THEN pc' = "diverged" /\ UNCHANGED <<all_matches, pos>>
             ELSE /\ pc' = pc
                  /\ all_matches' = append_matches(all_matches, r.matches)
                  /\ pos' = pos + 1
    /\ UNCHANGED <<arg_pattern, input, nfa_options, compiled, cur_line, found,
                   tree, ref_found>>
    /\ UNCHANGED globVars
    /\ UNCHANGED postfix
    /\ UNCHANGED mainVars
    /\ UNCHANGED walkVars
    /\ UNCHANGED auxVars

(* nfa.rs:257,265: next line of `for (line_number, line) in lines.enumerate()`,
   or return all_matches *)
NextLine ==
    /\ pc = "scan"
    /\ pos > Len(lines_of(input)[cur_line + 1])
    /\ IF cur_line + 1 < Len(lines_of(input))
       THEN cur_line' = cur_line + 1 /\ pos' = 1 /\ pc' = pc
       ELSE pc' = "done" /\ UNCHANGED <<cur_line, pos>>
    /\ UNCHANGED <<arg_pattern, input, nfa_options, compiled, all_matches, last_scan,
                   found, tree, ref_found>>
    /\ UNCHANGED globVars
    /\ UNCHANGED postfix
    /\ UNCHANGED mainVars
    /\ UNCHANGED walkVars
    /\ UNCHANGED auxVars

(* nfa.rs:268-279: find_match *)
FindMatchCall ==
    /\ pc = "ready"
    /\ found' = find_match(compiled.nfa, input)
    /\ pc' = IF found'.diverged THEN "diverged" ELSE "matched"
    /\ UNCHANGED <<arg_pattern, input, nfa_options, compiled, cur_line, pos,
                   all_matches, last_scan, tree, ref_found>>
    /\ UNCHANGED globVars
    /\ UNCHANGED postfix
    /\ UNCHANGED mainVars
    /\ UNCHANGED walkVars
    /\ UNCHANGED auxVars

Next == Compile \/ FindMatchesCall \/ ScanFrom \/ NextLine \/ FindMatchCall

Spec == Init /\ [][Next]_vars

-----------------------------------------------------------------------------
(* Compiled pattern against hand-composed combinators (re.rs tests
   regex_to_nfa_complex, regex_to_nfa_complex_2, regex_to_nfa_kleen) *)

Sym(c) == <<"sym", <<c>>>>

(* re.rs:457-472 tests::regex_to_nfa_complex: (ab+a)* *)
Star(t) == <<"star", t>>

Cat(l, r) == <<"cat", l, r>>

Alt(l, r) == <<"alt", l, r>>

ComplexTree == Star(Alt(Cat(Sym("a"), Sym("b")), Sym("a")))

ComplexTexts == {<<"a","b">>, <<>>, <<"a","a">>, <<"a","b","a","b","a","b">>,
                 <<"b","b","b","a","a","a">>}

(* re.rs:429-455 tests::regex_to_nfa_complex_2: (0+11+10(00+1)*01)* *)
ComplexTree2 ==
    Star(Alt(Sym("0"),
             Alt(Cat(Sym("1"), Sym("1")),
                 Cat(Cat(Sym("1"), Sym("0")),
                     Cat(Star(Alt(Cat(Sym("0"), Sym("0")), Sym("1"))),
                         Cat(Sym("0"), Sym("1")))))))

ComplexTexts2 == {<<"1","1">>, <<"1","0","0">>, <<"1","0","1">>, <<"1","1","0">>, <<"1">>,
                  <<"1","0","0","0","0","1">>}

EquivInputs == (Trees \X SeqsUpTo(Letters, MaxTextLen))
                 \cup ({ComplexTree} \X ComplexTexts)
                 \cup ({ComplexTree2} \X ComplexTexts2)

InitEquiv ==
    /\ \E in \in EquivInputs : tree = in[1] /\ arg_pattern = unparse(in[1]) /\ input = in[2]
    /\ nfa_options = [ignore_case |-> FALSE]
    /\ compiled = Panicked
    /\ pc = "init"
    /\ cur_line = 0
    /\ pos = 1
    /\ all_matches = <<>>
    /\ last_scan = NoScan
    /\ found = NoResult
    /\ ref_found = NoResult
    /\ GlobOff
    /\ postfix = NoPostfix
    /\ MainOff
    /\ WalkOff
    /\ AuxOff

(* nfa.find_match(example) on the combinator-built NFA *)
RefFindMatchCall ==
    /\ pc \in {"matched", "diverged"}
    /\ ref_found' = find_match(build(tree, nfa_options), input)
    /\ pc' = "compared"
    /\ UNCHANGED <<arg_pattern, input, nfa_options, compiled, cur_line, pos,
                   all_matches, last_scan, found, tree>>
    /\ UNCHANGED globVars
    /\ UNCHANGED postfix
    /\ UNCHANGED mainVars
    /\ UNCHANGED walkVars
    /\ UNCHANGED auxVars

NextEquiv == Compile \/ FindMatchCall \/ RefFindMatchCall

SpecEquiv == InitEquiv /\ [][NextEquiv]_vars


-----------------------------------------------------------------------------
(* re.rs:9-34 on its own: the concatenation pass applied to a pattern, and
   applied again to its own output *)

ConcatAlphabet == {"a", "b", CONCAT, UNION_OP, KLEEN, GROUP_START, GROUP_END,
                   CHAR_SET_START, CHAR_SET_END, SLASH}

(* a[bc] *)
ClassAfterAtom == <<"a", CHAR_SET_START, "b", "c", CHAR_SET_END>>

ConcatInputs == SeqsUpTo(ConcatAlphabet, MaxPatLen) \cup {ClassAfterAtom}

InitConcat ==
    /\ arg_pattern \in ConcatInputs
    /\ input = <<>>
    /\ nfa_options = [ignore_case |-> FALSE]
    /\ compiled = Panicked
    /\ pc = "init"
    /\ cur_line = 0
    /\ pos = 1
    /\ all_matches = <<>>
    /\ last_scan = NoScan
    /\ found = NoResult
    /\ tree = <<>>
    /\ ref_found = NoResult
    /\ GlobOff
    /\ postfix = NoPostfix
    /\ MainOff
    /\ WalkOff
    /\ AuxOff

(* insert_concat_symbol(raw_regex) *)
InsertConcatCall ==
    /\ pc = "init"
    /\ with_concat' = insert_concat_symbol(arg_pattern)
    /\ pc' = "inserted"
    /\ UNCHANGED <<arg_pattern, input, nfa_options, compiled, cur_line, pos,
                   all_matches, last_scan, found, tree, ref_found>>
    /\ UNCHANGED <<alt_pattern, alt_input, alt_compiled, alt_matches, with_concat_twice>>
    /\ UNCHANGED globVars
    /\ UNCHANGED postfix
    /\ UNCHANGED mainVars
    /\ UNCHANGED walkVars

(* insert_concat_symbol applied to the output of the first pass *)
InsertConcatAgainCall ==
    /\ pc = "inserted"
    /\ with_concat_twice' = insert_concat_symbol(with_concat)
    /\ pc' = "reinserted"
    /\ UNCHANGED <<arg_pattern, input, nfa_options, compiled, cur_line, pos,
                   all_matches, last_scan, found, tree, ref_found>>
    /\ UNCHANGED <<alt_pattern, alt_input, alt_compiled, alt_matches, with_concat>>
    /\ UNCHANGED globVars
    /\ UNCHANGED postfix
    /\ UNCHANGED mainVars
    /\ UNCHANGED walkVars

NextConcat == InsertConcatCall \/ InsertConcatAgainCall

SpecConcat == InitConcat /\ [][NextConcat]_vars

-----------------------------------------------------------------------------
(* re.rs:36-114 on its own: shunting_yard applied to a pattern.  A pattern
   is either drawn as a string, or written from a syntax tree with every
   grouping spelled out by parentheses; an atom of a tree may be a whole
   character class. *)

ClassAtom == <<"sym", <<CHAR_SET_START, "b", "c", CHAR_SET_END>>>>

RECURSIVE cat_chain(_, _)
cat_chain(str, n) ==
    IF n = 1 THEN Sym(str[1]) ELSE Cat(cat_chain(str, n - 1), Sym(str[n]))

(* re.rs:283-287 tests::shunting_yard_complex_example: a(a+b)*b *)
ComplexExample == Cat(Cat(Sym("a"), Star(Alt(Sym("a"), Sym("b")))), Sym("b"))

(* re.rs:301-305 tests::shunting_yard_long_concat: abcdefghijk *)
LongConcat == cat_chain(<<"a","b","c","d","e","f","g","h","i","j","k">>, 11)

(* re.rs:277-281 tests::shunting_yard_concat_of_groups: (ab)(ab) *)
ConcatOfGroups == Cat(Cat(Sym("a"), Sym("b")), Cat(Sym("a"), Sym("b")))

PostfixTrees == Trees \cup {ComplexExample, LongConcat, ConcatOfGroups,
                            ClassAtom, Star(ClassAtom),
                            Cat(ClassAtom, Sym("a")), Cat(Sym("a"), ClassAtom),
                            Alt(Sym("a"), ClassAtom)}

RECURSIVE unparse_grouped(_)
unparse_grouped(t) ==
    IF t[1] = "sym" THEN t[2]
    ELSE IF t[1] = "star"
    THEN (IF t[2][1] \in {"sym", "star"} THEN unparse_grouped(t[2])
          ELSE Parens(unparse_grouped(t[2]))) \o <<KLEEN>>
    ELSE IF t[1] = "cat"
    THEN (IF t[2][1] = "alt" THEN Parens(unparse_grouped(t[2])) ELSE unparse_grouped(t[2]))
           \o (IF t[3][1] \in {"alt", "cat"} THEN Parens(unparse_grouped(t[3]))
               ELSE unparse_grouped(t[3]))
    ELSE unparse_grouped(t[2]) \o <<UNION_OP>>
           \o (IF t[3][1] = "alt" THEN Parens(unparse_grouped(t[3]))
               ELSE unparse_grouped(t[3]))

PostfixStrings == Patterns \cup {<<"a", CHAR_SET_START, "b", CHAR_SET_END>>,
                                 <<SLASH, "d", "a">>}

InitPostfix ==
    /\ \/ tree = <<>> /\ arg_pattern \in PostfixStrings
       \/ tree \in PostfixTrees /\ arg_pattern = unparse_grouped(tree)
    /\ input = <<>>
    /\ nfa_options = [ignore_case |-> FALSE]
    /\ compiled = Panicked
    /\ pc = "init"
    /\ cur_line = 0
    /\ pos = 1
    /\ all_matches = <<>>
    /\ last_scan = NoScan
    /\ found = NoResult
    /\ ref_found = NoResult
    /\ postfix = NoPostfix
    /\ MainOff
    /\ GlobOff
    /\ WalkOff
    /\ AuxOff

(* shunting_yard(raw_regex) *)
ShuntingYardCall ==
    /\ pc = "init"
    /\ postfix' = shunting_yard(arg_pattern)
    /\ pc' = IF postfix'.ok THEN "postfix" ELSE "panic"
    /\ UNCHANGED <<arg_pattern, input, nfa_options, compiled, cur_line, pos,
                   all_matches, last_scan, found, tree, ref_found>>
    /\ UNCHANGED auxVars
    /\ UNCHANGED <<gpattern, gpath, gpc, gresult>>
    /\ UNCHANGED walkVars
    /\ UNCHANGED mainVars

NextPostfix == ShuntingYardCall

SpecPostfix == InitPostfix /\ [][NextPostfix]_vars

-----------------------------------------------------------------------------
(* ignore_case = true (main.rs:80-82): one pattern and one text next to a
   pattern and a text that differ from them in the case of letters only *)

MaxCaseLen == 2

(* the other case form of a letter, as to_uppercase / to_lowercase give it *)
switch_case(c) ==
    IF c \in Range(UpperLetters) THEN naive_lowercase(c) ELSE naive_uppercase(c)

CaseVariants(str) ==
    {t \in [1..Len(str) -> {str[i] : i \in 1..Len(str)}
                             \cup {switch_case(str[i]) : i \in 1..Len(str)}] :
        \A i \in 1..Len(str) : t[i] \in {str[i], switch_case(str[i])}}

CasePatternAlphabet == {"a", "S", LONG_S, "1"}

CaseTextAlphabet == {"a", "A", "s", "S", "1"}

CaseClasses == {<<CHAR_SET_START, "a", CHAR_SET_END>>,
                <<CHAR_SET_START, "^", "a", CHAR_SET_END>>,
                <<CHAR_SET_START, "a", "S", CHAR_SET_END>>,
                <<CHAR_SET_START, LONG_S, CHAR_SET_END>>,
                <<CHAR_SET_START, "^", "S", CHAR_SET_END, "a">>}

CasePatterns == (SeqsUpTo(CasePatternAlphabet, MaxCaseLen) \ {<<>>}) \cup CaseClasses

CaseTexts == SeqsUpTo(CaseTextAlphabet, MaxCaseLen)

InitCase ==
    /\ arg_pattern \in CasePatterns
    /\ alt_pattern \in CaseVariants(arg_pattern)
    /\ input \in CaseTexts
    /\ alt_input \in CaseVariants(input)
    /\ nfa_options = [ignore_case |-> TRUE]
    /\ compiled = Panicked
    /\ alt_compiled = Panicked
    /\ pc = "init"
    /\ cur_line = 0
    /\ pos = 1
    /\ all_matches = <<>>
    /\ alt_matches = <<>>
    /\ last_scan = NoScan
    /\ found = NoResult
    /\ tree = <<>>
    /\ ref_found = NoResult
    /\ with_concat = <<>>
    /\ with_concat_twice = <<>>
    /\ GlobOff
    /\ postfix = NoPostfix
    /\ MainOff
    /\ WalkOff

(* regex_to_nfa on the pattern and on its case variant *)
CompileCase ==
    /\ pc = "init"
    /\ compiled' = regex_to_nfa(arg_pattern, nfa_options)
    /\ alt_compiled' = regex_to_nfa(alt_pattern, nfa_options)
    /\ pc' = IF compiled'.ok /\ alt_compiled'.ok THEN "ready" ELSE "panic"
    /\ UNCHANGED <<arg_pattern, input, nfa_options, cur_line, pos, all_matches,
                   last_scan, found, tree, ref_found>>
    /\ UNCHANGED <<alt_pattern, alt_input, alt_matches, with_concat, with_concat_twice>>
    /\ UNCHANGED globVars
    /\ UNCHANGED postfix
    /\ UNCHANGED mainVars
    /\ UNCHANGED walkVars

(* find_match on the text and on its case variant *)
FindMatchCase ==
    /\ pc = "ready"
    /\ found' = find_match(compiled.nfa, input)
    /\ ref_found' = find_match(alt_compiled.nfa, alt_input)
    /\ pc' = "matched"
    /\ UNCHANGED <<arg_pattern, input, nfa_options, compiled, cur_line, pos,
                   all_matches, last_scan, tree>>
    /\ UNCHANGED auxVars
    /\ UNCHANGED globVars
    /\ UNCHANGED postfix
    /\ UNCHANGED mainVars
    /\ UNCHANGED walkVars

(* find_matches on the text and on its case variant *)
FindMatchesCase ==
    /\ pc = "matched"
    /\ all_matches' = find_matches(compiled.nfa, input).matches
    /\ alt_matches' = find_matches(alt_compiled.nfa, alt_input).matches
    /\ pc' = "done"
    /\ UNCHANGED <<arg_pattern, input, nfa_options, compiled, cur_line, pos,
                   last_scan, found, tree, ref_found>>
    /\ UNCHANGED <<alt_pattern, alt_input, alt_compiled, with_concat, with_concat_twice>>
    /\ UNCHANGED globVars
    /\ UNCHANGED postfix
    /\ UNCHANGED mainVars
    /\ UNCHANGED walkVars

NextCase == CompileCase \/ FindMatchCase \/ FindMatchesCase

SpecCase == InitCase /\ [][NextCase]_vars

-----------------------------------------------------------------------------
(* bolg/src/lib.rs: the glob matcher.  A path is [absolute, comps]: comps is
   what Path::components() yields after the optional root, each component a
   sequence of chars (<<".">> is CurDir, <<".", ".">> is ParentDir).  Indices
   pattern_idx and text_idx are 0-based as in the source.  The outcome of
   matches_ex is res ("true" / "false" for Ok(true) / Ok(false), "panic")
   together with the value left in the shared *text_idx. *)

CurDir == <<".">>

ParentDir == <<".", ".">>

(* std::env::current_dir() of the model *)
Cwd == <<<<"b">>>>

RECURSIVE lexical_loop(_, _, _)
lexical_loop(comps, i, absolute) ==
    IF i > Len(comps) THEN absolute
    ELSE IF comps[i] = CurDir THEN lexical_loop(comps, i + 1, absolute)
    ELSE IF comps[i] = ParentDir
    THEN lexical_loop(comps, i + 1,
                      IF absolute = <<>> THEN absolute ELSE Front(absolute))
    ELSE lexical_loop(comps, i + 1, Append(absolute, comps[i]))

(* the normal components of the resulting absolute PathBuf *)
to_lexical_absolute(path) ==
    lexical_loop(path.comps, 1, IF path.absolute THEN <<>> ELSE Cwd)

RECURSIVE join_loop(_, _)
join_loop(names, i) ==
    IF i > Len(names) THEN <<>>
    ELSE <<"/">> \o names[i] \o join_loop(names, i + 1)

(* canon.to_str().unwrap().chars().collect() *)
path_chars(names) == IF names = <<>> THEN <<"/">> ELSE join_loop(names, 1)

GlobOutcome(res, text_idx) == [res |-> res, text_idx |-> text_idx]

(* lib.rs:77-86: the member loop of a bracket class *)
RECURSIVE class_scan(_, _, _, _, _)
class_scan(pattern_chars, pattern_idx, text_idx, text, matched) ==
    IF /\ pattern_idx < Len(pattern_chars)
       /\ text_idx < Len(text)
       /\ pattern_chars[pattern_idx + 1] # "]"
    THEN IF pattern_chars[pattern_idx + 1] = text[text_idx + 1]
         THEN class_scan(pattern_chars, pattern_idx + 1, text_idx + 1, text, TRUE)
         ELSE class_scan(pattern_chars, pattern_idx + 1, text_idx, text, matched)
    ELSE [pattern_idx |-> pattern_idx, text_idx |-> text_idx, matched |-> matched]

(* lib.rs:92-94: advance to the closing bracket; -1 when the index runs out
   of bounds (the indexing panics) *)
RECURSIVE skip_to_close(_, _)
skip_to_close(pattern_chars, pattern_idx) ==
    IF pattern_idx >= Len(pattern_chars) THEN -1
    ELSE IF pattern_chars[pattern_idx + 1] # "]"
    THEN skip_to_close(pattern_chars, pattern_idx + 1)
    ELSE pattern_idx

(* lib.rs:125-127: skip `*`s; -1 when the index runs out of bounds *)
RECURSIVE skip_stars(_, _)
skip_stars(pattern_chars, pattern_idx) ==
    IF pattern_idx >= Len(pattern_chars) THEN -1
    ELSE IF pattern_chars[pattern_idx + 1] = "*"
    THEN skip_stars(pattern_chars, pattern_idx + 1)
    ELSE pattern_idx

(* a variant of tail_check that accepts as soon as the pattern is used up *)
tail_check_prefix(pattern_chars, pattern_idx, text_idx, text) ==
    IF pattern_idx >= Len(pattern_chars) THEN GlobOutcome("true", text_idx)
    ELSE GlobOutcome("false", text_idx)

(* lib.rs:116-134: what matches_ex returns once its loop has ended *)
tail_check(pattern_chars, pattern_idx, text_idx, text) ==
    LET have_pattern_left == pattern_idx < Len(pattern_chars)
        have_text_left == text_idx < Len(text)
    IN IF ~have_pattern_left /\ ~have_text_left THEN GlobOutcome("true", text_idx)
       ELSE IF have_text_left /\ pattern_idx < Len(pattern_chars)
       THEN LET p == skip_stars(pattern_chars, pattern_idx)
            IN IF p = -1 THEN GlobOutcome("panic", text_idx)
               ELSE IF p >= Len(pattern_chars) THEN GlobOutcome("true", text_idx)
               ELSE GlobOutcome("false", text_idx)
       ELSE GlobOutcome("false", text_idx)

RECURSIVE matches_ex(_, _, _, _)
matches_ex(pattern_chars, pattern_idx, text_idx, text) ==
    IF pattern_idx < Len(pattern_chars) /\ text_idx < Len(text)
    THEN LET pch == pattern_chars[pattern_idx + 1] IN
         IF pch = "*"
         THEN LET r == matches_ex(pattern_chars, pattern_idx + 1, text_idx, text)
              IN IF r.res \in {"true", "panic"} THEN r
                 ELSE matches_ex(pattern_chars, pattern_idx, r.text_idx + 1, text)
         ELSE IF pch = "["
         THEN LET s == class_scan(pattern_chars, pattern_idx + 1, text_idx, text, FALSE)
                  e == skip_to_close(pattern_chars, s.pattern_idx)
              IN IF ~s.matched THEN GlobOutcome("false", s.text_idx)
                 ELSE IF e = -1 THEN GlobOutcome("panic", s.text_idx)
                 ELSE matches_ex(pattern_chars, e + 1, s.text_idx, text)
         ELSE IF pch = "]" THEN GlobOutcome("panic", text_idx)
         ELSE IF pch = "?"
         THEN matches_ex(pattern_chars, pattern_idx + 1, text_idx + 1, text)
         ELSE IF pch # text[text_idx + 1] THEN GlobOutcome("false", text_idx)
         ELSE matches_ex(pattern_chars, pattern_idx + 1, text_idx + 1, text)
    ELSE tail_check(pattern_chars, pattern_idx, text_idx, text)

(* Paths::matches for a path that is a regular file *)
matches(pattern_chars, path) ==
    matches_ex(pattern_chars, 0, 0, path_chars(to_lexical_absolute(path))).res

(* a variant of brackets_closed that only asks for some `]` in a pattern
   that holds a `[` *)
brackets_closed_any(pat, i) ==
    (\E k \in 1..Len(pat) : pat[k] = "[") => (\E k \in 1..Len(pat) : pat[k] = "]")

(* lib.rs:216-228: every `[` is followed, later in the pattern, by a `]`;
   chars.find consumes the iterator up to and including that `]` *)
RECURSIVE brackets_closed(_, _)
brackets_closed(pat, i) ==
    IF i > Len(pat) THEN TRUE
    ELSE IF pat[i] = "["
    THEN LET closing == {j \in (i + 1)..Len(pat) : pat[j] = "]"}
         IN IF closing = {} THEN FALSE
            ELSE brackets_closed(pat, (CHOOSE j \in closing : \A x \in closing : j <= x) + 1)
    ELSE brackets_closed(pat, i + 1)

GlobAlphabet == {"/", "a", "b", "*", "?", "[", "]"}

(* lib.rs tests: *.[abc] and further patterns longer than MaxGlobLen *)
GlobScenarios == {<<"*", ".", "[", "a", "b", "c", "]">>,
                  <<"*", ".", "[", "a", "b", "c">>,
                  <<"[", "/", "a", "]">>,
                  <<"/", "[", "a", "b", "]">>,
                  <<"*", "[", "a", "b", "]">>,
                  <<"/", "b", "/", "a", "b">>,
                  <<"/", "a", "a", "b">>,
                  <<"/", "a", "*", "*">>}

GlobPatterns == SeqsUpTo(GlobAlphabet, MaxGlobLen) \cup GlobScenarios

FileNames == {<<"a">>, <<"a", "b">>, <<"a", "a", "b">>, <<"f", ".", "a">>}

DirComps == {<<"a">>, CurDir, ParentDir}

FilePaths == {[absolute |-> ab, comps |-> Append(d, f)] :
                 ab \in BOOLEAN, d \in SeqsUpTo(DirComps, MaxDirs), f \in FileNames}

RegexOff ==
    /\ arg_pattern = <<>>
    /\ input = <<>>
    /\ nfa_options = [ignore_case |-> FALSE]
    /\ compiled = Panicked
    /\ pc = "off"
    /\ cur_line = 0
    /\ pos = 1
    /\ all_matches = <<>>
    /\ last_scan = NoScan
    /\ found = NoResult
    /\ tree = <<>>
    /\ ref_found = NoResult

InitGlob ==
    /\ gpattern \in GlobPatterns
    /\ gpath \in FilePaths
    /\ gpc = "init"
    /\ gresult = "none"
    /\ RegexOff
    /\ postfix = NoPostfix
    /\ MainOff
    /\ WalkOff
    /\ AuxOff

(* lib.rs:209-233: glob(pattern, root) *)
GlobCall ==
    /\ gpc = "init"
    /\ \E root_exists \in BOOLEAN :
          IF ~root_exists
          THEN gpc' = "error" /\ gresult' = "path does not exist"
          ELSE IF ~brackets_closed(gpattern, 1)
          THEN gpc' = "error" /\ gresult' = "invalid pattern"
          ELSE gpc' = "walker" /\ gresult' = gresult
    /\ UNCHANGED <<gpattern, gpath>>
    /\ UNCHANGED regexVars
    /\ UNCHANGED postfix
    /\ UNCHANGED mainVars
    /\ UNCHANGED walkVars
    /\ UNCHANGED auxVars

(* lib.rs:45-55, called from Paths::next (lib.rs:173) for a regular file *)
MatchesCall ==
    /\ gpc = "walker"
    /\ gresult' = matches(gpattern, gpath)
    /\ gpc' = IF gresult' = "panic" THEN "panic" ELSE "matched"
    /\ UNCHANGED <<gpattern, gpath>>
    /\ UNCHANGED regexVars
    /\ UNCHANGED postfix
    /\ UNCHANGED mainVars
    /\ UNCHANGED walkVars
    /\ UNCHANGED auxVars

NextGlob == GlobCall \/ MatchesCall

SpecGlob == InitGlob /\ [][NextGlob]_vars

-----------------------------------------------------------------------------
(* bolg/src/lib.rs: the walker.  A directory of the file system is the
   sequence of its entries in the order fs::read_dir yields them (an order
   the platform chooses); an entry has a name, a kind and, for a directory,
   the node below it.  An element of entries_to_process is a PathEntry:
   File(path), or Dir(iterator) with the entries the iterator has yet to
   yield.  `tested` is a ghost: the files handed to Paths::matches, in
   order. *)

MaxEntries == 2

FileEntry(name) == [name |-> name, kind |-> "file", node |-> <<>>]

DirEntry(name, node) == [name |-> name, kind |-> "dir", node |-> node]

File(path) == [kind |-> "File", path |-> path, rest |-> <<>>]

Dir(path, rest) == [kind |-> "Dir", path |-> path, rest |-> rest]

(* DirEntry::path(): the directory's path joined with the entry's name *)
entry_path(dir_path, name) ==
    [absolute |-> dir_path.absolute, comps |-> Append(dir_path.comps, name)]

(* lib.rs:137-163: the queue Paths::new builds for a root that is a directory *)
Paths_new(path, node) == <<Dir(path, node)>>

(* lib.rs:204: self.entries_to_process.append(&mut to_append) *)
push_entries(entries, to_append) == entries \o to_append

(* lib.rs:168-206: one call of Paths::next; item is <<>> for None *)
RECURSIVE next_loop(_, _, _)
next_loop(pattern_chars, entries, seen) ==
    IF entries = <<>>
    THEN [item |-> <<>>, entries |-> entries, tested |-> seen, panic |-> FALSE]
    ELSE LET current_entry == Last(entries)
             popped == Front(entries)
         IN IF current_entry.kind = "File"
            THEN LET matched == matches(pattern_chars, current_entry.path)
                     seen2 == Append(seen, current_entry.path)
                 IN IF matched = "panic"
                    THEN [item |-> <<>>, entries |-> popped, tested |-> seen2,
                          panic |-> TRUE]
                    ELSE IF matched = "true"
                    THEN [item |-> <<current_entry.path>>, entries |-> popped,
                          tested |-> seen2, panic |-> FALSE]
                    ELSE next_loop(pattern_chars, popped, seen2)
            ELSE IF current_entry.rest = <<>>
            THEN next_loop(pattern_chars, popped, seen)
            ELSE LET x == Head(current_entry.rest)
                     again == Dir(current_entry.path, Tail(current_entry.rest))
                     child == IF x.kind = "file"
                              THEN File(entry_path(current_entry.path, x.name))
                              ELSE Dir(entry_path(current_entry.path, x.name), x.node)
                 IN next_loop(pattern_chars, push_entries(popped, <<again, child>>), seen)

WalkNames == {<<"a">>, <<"a", "b">>}

DistinctNames(node) ==
    \A i, j \in 1..Len(node) : i # j => node[i].name # node[j].name

(* directories that hold regular files only *)
LeafDirs == {n \in SeqsUpTo({FileEntry(f) : f \in WalkNames}, MaxEntries) :
                DistinctNames(n)}

RootDirs == {n \in SeqsUpTo({FileEntry(f) : f \in WalkNames}
                              \cup {DirEntry(<<"d">>, sub) : sub \in LeafDirs},
                            MaxEntries) : DistinctNames(n)}

(* lib.rs tests: the files abba, acca and a.txt, and nested/f.h *)
TestFilesDir ==
    <<FileEntry(<<"a", ".", "t", "x", "t">>),
      FileEntry(<<"a", "b", "b", "a">>),
      FileEntry(<<"a", "c", "c", "a">>),
      DirEntry(<<"n">>, <<FileEntry(<<"f", ".", "h">>)>>)>>

QuestionPattern == <<"a", "?", "?", "a">>

ExactPattern == <<"f", ".", "h">>

RootPath == [absolute |-> FALSE, comps |-> <<<<"t">>>>]

(* lib.rs:98-101: a pattern with a `]` that closes no class *)
StandaloneClose == <<"*", "]">>

WalkPatterns == {<<"*">>, <<"*", "a">>, <<"*", "b">>, StandaloneClose,
                 <<"/", "b", "/", "t", "/", "a">>,
                 <<"/", "b", "/", "t", "/", "d", "/", "a">>,
                 <<"/", "b", "/", "t", "/", "?", "*", "b">>,
                 <<"/", "b", "/", "t", "/", "[", "a", "d", "]", "*", "b">>,
                 <<"[", "a">>}

WalkInputs == (WalkPatterns \X RootDirs)
                \cup ({QuestionPattern, ExactPattern} \X {TestFilesDir})

InitWalk ==
    /\ \E in \in WalkInputs : gpattern = in[1] /\ root = in[2]
    /\ gpath = RootPath
    /\ gpc = "init"
    /\ gresult = "none"
    /\ entries_to_process = <<>>
    /\ tested = <<>>
    /\ yielded = <<>>
    /\ RegexOff
    /\ postfix = NoPostfix
    /\ MainOff
    /\ AuxOff

(* lib.rs:209-233: glob(pattern, path) for a root that exists and is a
   directory *)
GlobDirCall ==
    /\ gpc = "init"
    /\ IF ~brackets_closed(gpattern, 1)
       THEN gpc' = "error" /\ gresult' = "invalid pattern"
                           /\ UNCHANGED entries_to_process
       ELSE /\ gpc' = "iter"
            /\ gresult' = gresult
            /\ entries_to_process' = Paths_new(gpath, root)
    /\ UNCHANGED <<gpattern, gpath, root, tested, yielded>>
    /\ UNCHANGED regexVars
    /\ UNCHANGED postfix
    /\ UNCHANGED mainVars
    /\ UNCHANGED auxVars

(* lib.rs:165-207: one call of next() by the consumer of the iterator *)
NextCall ==
    /\ gpc = "iter"
    /\ LET r == next_loop(gpattern, entries_to_process, tested)
       IN /\ entries_to_process' = r.entries
          /\ tested' = r.tested
          /\ yielded' = yielded \o r.item
          /\ gpc' = IF r.panic THEN "panic"
                    ELSE IF r.item = <<>> THEN "exhausted" ELSE "iter"
    /\ UNCHANGED <<gpattern, gpath, gresult, root>>
    /\ UNCHANGED regexVars
    /\ UNCHANGED postfix
    /\ UNCHANGED mainVars
    /\ UNCHANGED auxVars

NextWalk == GlobDirCall \/ NextCall

SpecWalk == InitWalk /\ [][NextWalk]_vars

-----------------------------------------------------------------------------
(* perg/src/main.rs: main and its worker tasks.  A file path is a number; the
   walker lists the files of the root in one fixed order, and the result of
   glob(pattern, &path).collect() for one -g pattern is the subsequence of
   that order the pattern selects.  handles[i] is the task spawned for the
   i-th chunk: its chunk, the index of the next file of its loop, its output
   so far and whether it has returned.  The executor may run the tasks in
   any interleaving.  `completion` is a ghost: the tasks in the order in
   which they returned. *)

MaxFiles == 3
MaxThreads == 2
MaxGlobs == 2

RootFiles == 1..MaxFiles

file_content(file_path) ==
    IF file_path % 2 = 1 THEN <<"a", "b", "\n", "a">> ELSE <<"b">>

MainPattern == <<"a">>

MainOptions == [ignore_case |-> FALSE]

(* what one -g pattern can select: a subsequence of the walker's order *)
GlobSelections ==
    {sel \in SeqsUpTo(RootFiles, MaxFiles) :
        \A i, j \in 1..Len(sel) : i < j => sel[i] < sel[j]}

RECURSIVE Flatten(_)
Flatten(ss) == IF ss = <<>> THEN <<>> ELSE Head(ss) \o Flatten(Tail(ss))

GlobRuns == {g \in SeqsUpTo(GlobSelections, MaxGlobs) : Len(Flatten(g)) <= MaxFiles}

FileMatch(file_path, found_matches) ==
    [file_path |-> file_path, matches |-> found_matches]

(* slice::chunks(chunk_size) *)
RECURSIVE chunks(_, _)
chunks(slice, chunk_size) ==
    IF slice = <<>> THEN <<>>
    ELSE IF Len(slice) <= chunk_size THEN <<slice>>
    ELSE <<SubSeq(slice, 1, chunk_size)>>
           \o chunks(SubSeq(slice, chunk_size + 1, Len(slice)), chunk_size)

(* main.rs:100-104 *)
chunk_size_of(len, number_of_available_threads) ==
    IF len < number_of_available_threads THEN len
    ELSE len \div number_of_available_threads

Task(chunk) == [chunk |-> chunk, next |-> 1, output |-> <<>>, returned |-> FALSE]

InitMain ==
    /\ glob_results \in GlobRuns
    /\ threads \in 1..MaxThreads
    /\ main_pc = "init"
    /\ files = <<>>
    /\ handles = <<>>
    /\ completion = <<>>
    /\ results = <<>>
    /\ reported = <<>>
    /\ RegexOff
    /\ GlobOff
    /\ WalkOff
    /\ AuxOff
    /\ postfix = NoPostfix

(* main.rs:78-123: collect the files of every glob, compute the chunk size,
   spawn one task per chunk *)
MainStart ==
    /\ main_pc = "init"
    /\ files' = Flatten(glob_results)
    /\ LET chunk_size == chunk_size_of(Len(files'), threads)
       IN IF chunk_size = 0
          THEN main_pc' = "returned" /\ handles' = <<>>
          ELSE /\ main_pc' = "joining"
               /\ handles' = [i \in 1..Len(chunks(files', chunk_size)) |->
                                 Task(chunks(files', chunk_size)[i])]
    /\ UNCHANGED <<glob_results, threads, completion, results, reported>>
    /\ UNCHANGED regexVars
    /\ UNCHANGED globVars
    /\ UNCHANGED walkVars
    /\ UNCHANGED auxVars
    /\ UNCHANGED postfix

(* main.rs:56-73: one iteration of `for file_path in chunk` in task i (the
   files the walker yields are regular files that can be read) *)
TaskScan(i) ==
    /\ main_pc = "joining"
    /\ ~handles[i].returned
    /\ handles[i].next <= Len(handles[i].chunk)
    /\ LET file_path == handles[i].chunk[handles[i].next]
           nfa == regex_to_nfa(MainPattern, MainOptions).nfa
           file_match == FileMatch(file_path,
                                   find_matches(nfa, file_content(file_path)).matches)
       IN handles' = [handles EXCEPT
                         ![i].output = Append(@, file_match),
                         ![i].next = @ + 1]
    /\ UNCHANGED <<glob_results, main_pc, files, threads, completion, results,
                   reported>>
    /\ UNCHANGED regexVars
    /\ UNCHANGED globVars
    /\ UNCHANGED walkVars
    /\ UNCHANGED auxVars
    /\ UNCHANGED postfix

(* main.rs:75: task i returns its output *)
TaskReturn(i) ==
    /\ main_pc = "joining"
    /\ ~handles[i].returned
    /\ handles[i].next > Len(handles[i].chunk)
    /\ handles' = [handles EXCEPT ![i].returned = TRUE]
    /\ completion' = Append(completion, i)
    /\ UNCHANGED <<glob_results, main_pc, files, threads, results, reported>>
    /\ UNCHANGED regexVars
    /\ UNCHANGED globVars
    /\ UNCHANGED walkVars
    /\ UNCHANGED auxVars
    /\ UNCHANGED postfix

(* main.rs:125: block_on(join_all(handles)) returns once every task has
   returned, with the outputs in the order of the handles *)
JoinAll ==
    /\ main_pc = "joining"
    /\ \A i \in 1..Len(handles) : handles[i].returned
    /\ results' = [i \in 1..Len(handles) |-> handles[i].output]
    /\ main_pc' = "joined"
    /\ UNCHANGED <<glob_results, files, threads, handles, completion, reported>>
    /\ UNCHANGED regexVars
    /\ UNCHANGED globVars
    /\ UNCHANGED walkVars
    /\ UNCHANGED auxVars
    /\ UNCHANGED postfix

(* main.rs:127-135: print every FileMatch of every result, in order *)
Report ==
    /\ main_pc = "joined"
    /\ reported' = Flatten(results)
    /\ main_pc' = "done"
    /\ UNCHANGED <<glob_results, files, threads, handles, completion, results>>
    /\ UNCHANGED regexVars
    /\ UNCHANGED globVars
    /\ UNCHANGED walkVars
    /\ UNCHANGED auxVars
    /\ UNCHANGED postfix

NextMain ==
    \/ MainStart
    \/ \E i \in 1..Len(handles) : TaskScan(i)
    \/ \E i \in 1..Len(handles) : TaskReturn(i)
    \/ JoinAll
    \/ Report

SpecMain == InitMain /\ [][NextMain]_vars

-----------------------------------------------------------------------------
(* Properties of the regex engine *)

(* C1: find_matches reports a match that ends at the last character of a
   line: \d\dabc over "01abc\nabc01abc\n12313\nabc" returns exactly the two
   matches (from 0, to 5, line 0) and (from 3, to 8, line 1). *)
C1_EndOfLineMatches ==
    (pc = "done" /\ arg_pattern = DigitsPattern /\ input = DigitsText)
        => all_matches = <<Match(0, 5, 0), Match(3, 8, 1)>>

(* C2: the simulator terminates on every text for every NFA compiled from
   literals, grouping, + and *: the in-place epsilon expansion of the
   frontier always reaches its end, also over an epsilon cycle. *)
C2_SimulatorTerminates == pc # "diverged"

(* C3: the matches find_matches returns for one line are pairwise
   non-overlapping. *)
C3_NonOverlapping ==
    \A i, j \in 1..Len(all_matches) :
        (i # j /\ all_matches[i].line = all_matches[j].line)
            => \/ all_matches[i].to <= all_matches[j].from
               \/ all_matches[j].to <= all_matches[i].from

SeqMax(s) == CHOOSE m \in Range(s) : \A x \in Range(s) : x <= m

(* C4: the scan from a start position s emits at most one Match, with
   from = s and to = the largest offset at which a Final state was in the
   frontier during that scan. *)
C4_OneLongestPerStart ==
    (last_scan.called /\ ~last_scan.diverged)
        => /\ Len(last_scan.matches) <= 1
           /\ Len(last_scan.matches) = 1
                => /\ last_scan.matches[1].from = last_scan.start
                   /\ last_scan.matches[1].to = SeqMax(last_scan.observed)

(* C5: the sequence find_matches returns is ordered by line and, within a
   line, by ascending from. *)
C5_OrderedByLineThenFrom ==
    \A i, j \in 1..Len(all_matches) :
        i < j => \/ all_matches[i].line < all_matches[j].line
                 \/ /\ all_matches[i].line = all_matches[j].line
                    /\ all_matches[i].from <= all_matches[j].from

C5_Witness ==
    /\ pc = "done"
    /\ \E i, j \in 1..Len(all_matches) :
          i < j /\ all_matches[i].line < all_matches[j].line
    /\ \E i, j \in 1..Len(all_matches) :
          /\ i < j
          /\ all_matches[i].line = all_matches[j].line
          /\ all_matches[i].from < all_matches[j].from

(* C6: find_match on the NFA compiled from a pattern returns the same result
   as find_match on the NFA composed with symbol/concat/union/kleen along
   the pattern's syntax tree (and fails to return on the same inputs). *)
C6_CompiledEqualsCombinators ==
    pc = "compared" => found = ref_found

C6_Witness ==
    /\ pc = "compared"
    /\ tree = ComplexTree2
    /\ ~found.diverged
    /\ found.value
    /\ input = <<"1", "0", "0", "0", "0", "1">>


(* the number of `(` left open at the end of p, counted outside character
   classes; closes at depth 0 are skipped *)
RECURSIVE open_groups(_, _, _, _)
open_groups(p, i, depth, in_set) ==
    IF i > Len(p) THEN depth
    ELSE IF p[i] = CHAR_SET_END THEN open_groups(p, i + 1, depth, FALSE)
    ELSE IF in_set THEN open_groups(p, i + 1, depth, in_set)
    ELSE IF p[i] = CHAR_SET_START THEN open_groups(p, i + 1, depth, TRUE)
    ELSE IF p[i] = GROUP_START THEN open_groups(p, i + 1, depth + 1, in_set)
    ELSE IF p[i] = GROUP_END /\ depth > 0 THEN open_groups(p, i + 1, depth - 1, in_set)
    ELSE open_groups(p, i + 1, depth, in_set)

(* p holds, outside character classes, a `)` with no earlier unmatched `(` *)
RECURSIVE unmatched_close(_, _, _, _)
unmatched_close(p, i, depth, in_set) ==
    IF i > Len(p) THEN FALSE
    ELSE IF p[i] = CHAR_SET_END THEN unmatched_close(p, i + 1, depth, FALSE)
    ELSE IF in_set THEN unmatched_close(p, i + 1, depth, in_set)
    ELSE IF p[i] = CHAR_SET_START THEN unmatched_close(p, i + 1, depth, TRUE)
    ELSE IF p[i] = GROUP_START THEN unmatched_close(p, i + 1, depth + 1, in_set)
    ELSE IF p[i] = GROUP_END
    THEN depth = 0 \/ unmatched_close(p, i + 1, depth - 1, in_set)
    ELSE unmatched_close(p, i + 1, depth, in_set)

UnclosedClass(p) ==
    \E i \in 1..Len(p) :
        p[i] = CHAR_SET_START /\ \A j \in (i + 1)..Len(p) : p[j] # CHAR_SET_END

Compiled == pc \notin {"init", "off"}

(* C12: regex_to_nfa fails, returning no NFA, for every pattern that holds a
   `(` with no matching `)` or a `[` with no closing `]`. *)
C12_UnterminatedFails ==
    (Compiled /\ (open_groups(arg_pattern, 1, 0, FALSE) > 0 \/ UnclosedClass(arg_pattern)))
        => ~compiled.ok

(* C13: compiling a pattern that holds a `)` with no earlier unmatched `(`
   fails: shunting_yard emits no postfix stream and regex_to_nfa returns no
   NFA. *)
C13_UnmatchedCloseFails ==
    (Compiled /\ unmatched_close(arg_pattern, 1, 0, FALSE))
        => (~shunting_yard(arg_pattern).ok /\ ~compiled.ok /\ pc = "panic")

C13_Witness ==
    /\ pc = "panic"
    /\ arg_pattern = <<GROUP_START, GROUP_END, GROUP_END>>
    /\ ~shunting_yard(arg_pattern).ok

Sentinels == {CONCAT, ANY_DIGIT, ANY_ALPHANUMERIC, ANY_OTHER_CHAR, EPLISON}

(* C14: a pattern that holds a reserved scalar (CONCAT, ANY_DIGIT,
   ANY_ALPHANUMERIC, ANY_OTHER_CHAR, EPLISON) is rejected by regex_to_nfa or
   compiled so that the scalar matches only itself: for the one-character
   pattern s, find_match is true exactly on the texts that hold s. *)
C14_SentinelsAreLiteral ==
    (pc = "matched" /\ Len(arg_pattern) = 1 /\ arg_pattern[1] \in Sentinels)
        => (found.value <=> \E i \in 1..Len(input) : input[i] = arg_pattern[1])

(* C17: find_match on kleen(symbol('a')) is true for the empty text and for
   every text made of 'a' only, and false for every text that holds another
   character ("b", "ab", "bbbb"). *)
C17_KleenOfSymbol ==
    (pc = "compared" /\ tree = Star(Sym("a")))
        => /\ ~ref_found.diverged
           /\ ref_found.value <=> \A i \in 1..Len(input) : input[i] = "a"

(* the insertion rule: CONCAT goes before a character c that is not a member
   of a character class iff c is none of CONCAT, UNION, KLEEN, `)`, `]` and
   the previous character exists and is none of `(`, UNION, `[`, `\` *)
RECURSIVE rule_insert(_, _, _)
rule_insert(r, i, in_set) ==
    IF i > Len(r) THEN <<>>
    ELSE LET c == r[i]
             member == in_set /\ c # CHAR_SET_END
             wanted == /\ ~member
                       /\ c \notin {CONCAT, UNION_OP, KLEEN, GROUP_END, CHAR_SET_END}
                       /\ i > 1
                       /\ r[i - 1] \notin {GROUP_START, UNION_OP, CHAR_SET_START, SLASH}
             in_set2 == IF c = CHAR_SET_END THEN FALSE
                        ELSE IF c = CHAR_SET_START THEN TRUE
                        ELSE in_set
         IN (IF wanted THEN <<CONCAT, c>> ELSE <<c>>) \o rule_insert(r, i + 1, in_set2)

(* C19: insert_concat_symbol inserts exactly one CONCAT before each character
   the insertion rule names, a `[` that opens a class after an atom included
   (a[bc] becomes a CONCAT [bc]), and inserts or removes nothing else. *)
C19_ConcatInsertedByRule ==
    pc \in {"inserted", "reinserted"} => with_concat = rule_insert(arg_pattern, 1, FALSE)

ClassFree(r) == \A i \in 1..Len(r) : r[i] \notin {CHAR_SET_START, CHAR_SET_END}

(* C20: insert_concat_symbol is idempotent on class-free input: applied to
   its own output it changes nothing. *)
C20_ConcatIdempotent ==
    (pc = "reinserted" /\ ClassFree(arg_pattern)) => with_concat_twice = with_concat

(* C16: with ignore_case = true, find_match and find_matches give the same
   result on a text as on every text that differs from it in the case of
   letters only, and the same result for the pattern with letters switched
   in case. *)
C16_CaseInsensitive ==
    /\ pc \in {"matched", "done"} => found = ref_found
    /\ pc = "done" => all_matches = alt_matches

Count(str, c) == Cardinality({i \in 1..Len(str) : str[i] = c})

(* C21: when shunting_yard returns, its output consists of the input's
   characters other than `(` and `)`, each as often as in the input, plus
   the inserted CONCAT markers, and holds no `(` and no `)`. *)
C21_PostfixKeepsTokens ==
    pc = "postfix" =>
        /\ Count(postfix.output, GROUP_START) = 0
        /\ Count(postfix.output, GROUP_END) = 0
        /\ \A c \in (Range(arg_pattern) \cup Range(postfix.output))
                       \ {GROUP_START, GROUP_END, CONCAT} :
              Count(postfix.output, c) = Count(arg_pattern, c)
        /\ Count(postfix.output, CONCAT) = Count(insert_concat_symbol(arg_pattern), CONCAT)

(* the postfix form of a syntax tree: operands in order, each operator after
   its operands *)
RECURSIVE postfix_of(_)
postfix_of(t) ==
    IF t[1] = "sym" THEN t[2]
    ELSE IF t[1] = "star" THEN postfix_of(t[2]) \o <<KLEEN>>
    ELSE IF t[1] = "cat" THEN postfix_of(t[2]) \o postfix_of(t[3]) \o <<CONCAT>>
    ELSE postfix_of(t[2]) \o postfix_of(t[3]) \o <<UNION_OP>>

(* C22: for a well-formed pattern shunting_yard emits the postfix form in
   which KLEEN binds tighter than CONCAT, CONCAT tighter than UNION, equal
   operators group to the left and parentheses override precedence. *)
C22_PostfixFollowsPrecedence ==
    (pc \in {"postfix", "panic"} /\ tree # <<>>)
        => (postfix.ok /\ postfix.output = postfix_of(tree))

(* C23: regex_to_nfa returns an NFA only if its stack of partial NFAs holds
   exactly one element once the postfix stream is consumed; with none or
   with more than one it reports the pattern as malformed. *)
C23_OneNfaRemains ==
    (Compiled /\ compiled.ok) => compiled.stack_len = 1

IsAtomPattern(p) ==
    \/ p \in {DigitEscape, WordEscape}
    \/ (Len(p) = 1 /\ p[1] \in Letters)

AtomEdge(p) ==
    IF p = DigitEscape THEN ANY_DIGIT
    ELSE IF p = WordEscape THEN ANY_ALPHANUMERIC
    ELSE p[1]

ThreeStateAtom(nfa, on) ==
    /\ Len(nfa.states) = 3
    /\ nfa.initial_state = 1
    /\ nfa.final_states = <<2>>
    /\ nfa.states[1] = State_new(<<Transition_new(on, 2),
                                   Transition_new(ANY_OTHER_CHAR, 3)>>, "Initial")
    /\ nfa.states[2] = State_new(<<Transition_new(ANY_OTHER_CHAR, 3)>>, "Final")
    /\ nfa.states[3] = State_new(<<>>, "Failed")

(* C24: for a literal character, \d and \w, regex_to_nfa pushes an NFA of
   exactly three states (Initial, Final, Failed) whose only edge from
   Initial to Final is the matching edge, so that the atom consumes exactly
   one character. *)
C24_AtomsAreThreeStates ==
    (Compiled /\ IsAtomPattern(arg_pattern))
        => (compiled.ok /\ ThreeStateAtom(compiled.nfa, AtomEdge(arg_pattern)))

(* C25: negation is decided per character class by the class's own leading
   `^`: in [^a][b] and in [^a]+[b] the second class matches only b, and a
   `^` that is not the first character of its class is a literal member
   ([a^] matches a and ^ and nothing else). *)
C25_NegationPerClass ==
    pc = "matched" =>
        /\ arg_pattern = NegativeOrPlain =>
              (found.value <=> \E i \in 1..Len(input) : input[i] # "a")
        /\ arg_pattern = NegativeThenPlain =>
              (found.value <=> \E i \in 1..(Len(input) - 1) :
                                   input[i] # "a" /\ input[i + 1] = "b")
        /\ arg_pattern = CaretInside =>
              (found.value <=> \E i \in 1..Len(input) : input[i] \in {"a", "^"})

PlainChars == {"a", "b", "c", "1", "2", "^", "\n"}

class_edge_targets(st, c) ==
    LET m == SelectSeq(st.transitions,
                       LAMBDA t : t.on # ANY_OTHER_CHAR /\ edge_matches(t.on, c))
    IN [j \in 1..Len(m) |-> m[j].to]

any_other_targets(st) ==
    LET any == SelectSeq(st.transitions, LAMBDA t : t.on = ANY_OTHER_CHAR)
    IN [j \in 1..Len(any) |-> any[j].to]

(* C26: in a simulation step on a character c that is no sentinel, a state
   adds the destination of its ANY_OTHER_CHAR edge to the next frontier iff
   none of its literal, ANY_DIGIT or ANY_ALPHANUMERIC edges matched c, and
   the destinations of the matching edges are added in any case; so [^ab]
   finds a match in a text iff the text has a character other than a and b. *)
C26_AnyOtherOnlyWhenNoneMatched ==
    (Compiled /\ compiled.ok) =>
        /\ \A i \in 1..Len(compiled.nfa.states) : \A c \in PlainChars :
              LET st == compiled.nfa.states[i]
                  m == class_edge_targets(st, c)
                  any == any_other_targets(st)
              IN next_targets(st, c) =
                     IF m = <<>> /\ any # <<>> THEN <<any[Len(any)]>> ELSE m
        /\ (pc = "matched" /\ arg_pattern = NegativeSet) =>
              (found.value <=> \E i \in 1..Len(input) : input[i] \notin {"a", "b"})

C26_Witness ==
    /\ pc = "matched"
    /\ arg_pattern = NegativeSet
    /\ input = <<"a", "c">>
    /\ found.value
    /\ class_edge_targets(compiled.nfa.states[compiled.nfa.initial_state], "a") # <<>>
    /\ any_other_targets(compiled.nfa.states[compiled.nfa.initial_state]) # <<>>

FinalsAgree(nfa) ==
    /\ nfa.final_states # <<>>
    /\ Range(nfa.final_states) \subseteq 1..Len(nfa.states)
    /\ \A i \in 1..Len(nfa.states) :
          nfa.states[i].kind = "Final" <=> i \in Range(nfa.final_states)

(* C27: in every NFA built by symbol, set_of_chars, negative_set_of_chars,
   concat, union, kleen or a composition of them, a state has kind Final iff
   it is listed in final_states, and final_states is not empty.  Stated for
   the NFA a pattern compiles to and for the NFAs one further combinator
   makes of it. *)
C27_KindAgreesWithFinalStates ==
    (Compiled /\ compiled.ok) =>
        LET n == compiled.nfa
            cls == set_of_chars(<<"a", "b">>, nfa_options)
            neg == negative_set_of_chars(<<"a">>, nfa_options)
        IN /\ FinalsAgree(n)
           /\ FinalsAgree(cls)
           /\ FinalsAgree(neg)
           /\ FinalsAgree(symbol("a", nfa_options))
           /\ FinalsAgree(kleen(n))
           /\ FinalsAgree(concat(n, cls))
           /\ FinalsAgree(concat(neg, n))
           /\ FinalsAgree(union(n, neg))
           /\ FinalsAgree(union(cls, n))

C27_Witness ==
    /\ Compiled
    /\ compiled.ok
    /\ arg_pattern = <<"a", KLEEN, "b">>
    /\ Len(compiled.nfa.states) = 8
    /\ \E i \in 1..Len(compiled.nfa.states) : compiled.nfa.states[i].kind = "Normal"
    /\ FinalsAgree(compiled.nfa)

byte_len(line) == byte_offset(line, Len(line) + 1)

(* C29: every Match that find_matches returns denotes a non-empty span
   inside its line: 0 <= from < to <= byte length of the line, and line is
   the zero-based index of a line of the text. *)
C29_MatchIsNonEmptySpan ==
    \A i \in 1..Len(all_matches) :
        LET m == all_matches[i]
        IN /\ m.line \in 0..(Len(lines_of(input)) - 1)
           /\ 0 <= m.from
           /\ m.from < m.to
           /\ m.to <= byte_len(lines_of(input)[m.line + 1])

-----------------------------------------------------------------------------
(* Properties of the glob matcher *)

GlobMeta == {"*", "?", "[", "]"}

IsLiteral(p) == \A i \in 1..Len(p) : p[i] \notin GlobMeta

AllStars(p) == \A i \in 1..Len(p) : p[i] = "*"

(* the canonical path string Paths::matches compares the pattern with *)
CanonText == path_chars(to_lexical_absolute(gpath))

(* the wildcard language: `*` is any run of characters, `?` any one
   character, [c1..cn] one of the listed characters, any other character
   itself *)
RECURSIVE glob_denotes(_, _)
glob_denotes(p, t) ==
    IF p = <<>> THEN t = <<>>
    ELSE IF p[1] = "*"
    THEN \E k \in 0..Len(t) : glob_denotes(Tail(p), SubSeq(t, k + 1, Len(t)))
    ELSE IF p[1] = "?" THEN t # <<>> /\ glob_denotes(Tail(p), Tail(t))
    ELSE IF p[1] = "["
    THEN LET closing == {j \in 2..Len(p) : p[j] = "]"}
         IN /\ closing # {}
            /\ t # <<>>
            /\ LET e == CHOOSE j \in closing : \A x \in closing : j <= x
               IN /\ \E m \in 2..(e - 1) : p[m] = t[1]
                  /\ glob_denotes(SubSeq(p, e + 1, Len(p)), Tail(t))
    ELSE t # <<>> /\ t[1] = p[1] /\ glob_denotes(Tail(p), Tail(t))

(* C7: `*` matches zero or more characters: for a pattern P1 * P2 (P2 a
   non-empty run of literal characters) Paths::matches is true whenever the
   path splits as X Y Z with P1 matching X and P2 matching Z, wherever Z
   starts. *)
C7_StarMatchesAnyRun ==
    gpc = "matched" =>
        \A k \in 1..Len(gpattern) :
            LET P1 == SubSeq(gpattern, 1, k - 1)
                P2 == SubSeq(gpattern, k + 1, Len(gpattern))
            IN (/\ gpattern[k] = "*"
                /\ P2 # <<>>
                /\ IsLiteral(P2)
                /\ \A i \in 1..Len(P1) : P1[i] \notin {"[", "]"}
                /\ \E i \in 0..Len(CanonText) : \E j \in i..Len(CanonText) :
                      /\ glob_denotes(P1, SubSeq(CanonText, 1, i))
                      /\ glob_denotes(P2, SubSeq(CanonText, j + 1, Len(CanonText))))
               => gresult = "true"

(* C8: when the path text is exhausted and the rest of the pattern consists
   only of `*`, the match succeeds; the pattern `*` matches every path. *)
C8_TrailingStarsSucceed ==
    gpc = "matched" =>
        ((\/ (gpattern # <<>> /\ AllStars(gpattern))
          \/ \E k \in 0..Len(gpattern) :
                /\ SubSeq(gpattern, 1, k) = CanonText
                /\ AllStars(SubSeq(gpattern, k + 1, Len(gpattern))))
            => gresult = "true")

(* C9: a bracket class [c1..cn] consumes exactly one character of the path,
   one of c1..cn: a pattern L1 [c1..cn] L2 with L1, L2 literal matches
   only paths L1 c L2 with c among c1..cn. *)
C9_ClassConsumesOneChar ==
    gpc = "matched" =>
        \A a \in 1..Len(gpattern) : \A b \in (a + 1)..Len(gpattern) :
            (/\ gpattern[a] = "["
             /\ gpattern[b] = "]"
             /\ IsLiteral(SubSeq(gpattern, 1, a - 1))
             /\ IsLiteral(SubSeq(gpattern, a + 1, b - 1))
             /\ IsLiteral(SubSeq(gpattern, b + 1, Len(gpattern)))
             /\ gresult = "true")
            => \E m \in (a + 1)..(b - 1) :
                  CanonText = SubSeq(gpattern, 1, a - 1) \o <<gpattern[m]>>
                                \o SubSeq(gpattern, b + 1, Len(gpattern))

C15_GlobRejectsUnclosedBracket ==
    (gpc \in {"error", "walker", "matched", "panic"} /\ gresult # "path does not exist")
        => ((gpc = "error") <=> UnclosedClass(gpattern))

C15_Witness ==
    /\ gpc = "error"
    /\ gresult = "invalid pattern"
    /\ gpattern = <<"*", ".", "[", "a", "b", "c">>

-----------------------------------------------------------------------------
(* Properties of the walker *)

(* C11: glob("a??a", root) over a root that holds the regular files abba,
   acca and a.txt yields exactly abba and acca, and glob("f.h", root) yields
   the nested file f.h: a file is selected when the pattern matches its
   name. *)
C11_PatternSelectsByName ==
    (gpc = "exhausted" /\ root = TestFilesDir) =>
        /\ gpattern = QuestionPattern =>
              Range(yielded) = {entry_path(RootPath, <<"a", "b", "b", "a">>),
                                entry_path(RootPath, <<"a", "c", "c", "a">>)}
        /\ gpattern = ExactPattern =>
              Range(yielded) = {entry_path(entry_path(RootPath, <<"n">>),
                                           <<"f", ".", "h">>)}

IsProperPrefix(a, b) == Len(a) < Len(b) /\ SubSeq(b, 1, Len(a)) = a

(* C18: the walker is breadth-first: a regular file that lies directly in a
   directory is tested before any file of a subdirectory of that
   directory. *)
C18_BreadthFirst ==
    \A i, j \in 1..Len(tested) :
        i < j => ~IsProperPrefix(Front(tested[j].comps), Front(tested[i].comps))

RECURSIVE files_under(_, _)
files_under(dir_path, node) ==
    UNION {IF node[i].kind = "file"
           THEN {entry_path(dir_path, node[i].name)}
           ELSE files_under(entry_path(dir_path, node[i].name), node[i].node)
             : i \in 1..Len(node)}

selected_files == {f \in files_under(gpath, root) : matches(gpattern, f) = "true"}

NoRepeats(s) == \A i, j \in 1..Len(s) : i # j => s[i] # s[j]

(* C28: on a finite tree, repeated calls of next() on the walker that glob
   returned eventually return None, and by then every regular file under
   the root that the pattern matches was yielded exactly once; the walker
   never yields a directory, a file the pattern does not match, or a file
   twice.  As a property of every reachable state: every call of next()
   returns (Some or None), what was yielded so far are distinct selected
   files, so that None comes after at most one call per file of the tree,
   and when None is returned every selected file was yielded. *)
C28_WalkerYieldsMatchesThenNone ==
    /\ gpc # "panic"
    /\ NoRepeats(yielded)
    /\ Range(yielded) \subseteq selected_files
    /\ gpc = "exhausted" => Range(yielded) = selected_files

-----------------------------------------------------------------------------
(* Properties of main *)

reported_paths == [i \in 1..Len(reported) |-> reported[i].file_path]

tasks_that_scanned(file_path) ==
    {i \in 1..Len(handles) :
        \E k \in 1..Len(handles[i].output) : handles[i].output[k].file_path = file_path}

(* C30: whatever the interleaving and the completion order of the worker
   tasks, main reports the per-file results in the order in which the globs
   enumerated the files, and every enumerated file is scanned by exactly one
   task and appears exactly once in the results. *)
C30_ReportInGlobOrderOnce ==
    main_pc = "done" =>
        /\ reported_paths = Flatten(glob_results)
        /\ \A f \in Range(Flatten(glob_results)) :
              /\ Cardinality(tasks_that_scanned(f)) = 1
              /\ Count(reported_paths, f) = 1

=============================================================================
